---- MODULE Spec2Model ----
(***************************************************************************)
(* LinkPage: the link service (services/linkService.ts) over the hosted    *)
(* `links` table, URL validation and search (utils/searchUtils.ts), and    *)
(* the public page that renders the enabled links (pages/LinkPage.tsx).    *)
(*                                                                         *)
(* A service call is one atomic step that leaves the call's record in      *)
(* `last` and the table as it was before the call in `prev`; the caller    *)
(* then takes the result (Return) before it issues the next call.          *)
(* The created_at / updated_at columns are not modelled.                   *)
(***************************************************************************)
EXTENDS Integers, Sequences, FiniteSets, TLC

VARIABLES
    links,        \* the `links` table: id -> row
    nextId,       \* ids handed out so far + 1 (gen_random_uuid: never reused)
    phase,        \* "idle" | "returned": position of the service's caller
    last,         \* the call that has just returned (NoCall when idle)
    prev,         \* the table before that call
    clean,        \* history: no storage request has failed and every reorder
                  \* was given a permutation of the owner's ids
    pageLinks,    \* LinkPage: const [links, setLinks]
    searchQuery,  \* LinkPage: const [searchQuery, setSearchQuery]
    pageOwner,    \* LinkPage: id of the profile the page holds ("" = null)
    pageError,    \* LinkPage: the page shows its error view
    done,         \* Dashboard: the call its last finished handler made
    clickers,     \* recordLinkClick: each running call's position and linkData
    clicked,      \* recordLinkClick: calls completed, per link id
    notepad,      \* the `notepads` row of the page's slug: its content
    pad,          \* SharedNotepad: content, error, saveTimeoutRef
    padLast,      \* the last saveNoteContent / clearNote call
    profiles,     \* the `profiles` table: user id -> row
    profCalls,    \* updateProfile: each user's running call
    sessions,     \* createLink / reorderLinks calls running request by request
    dash,         \* Dashboard: const [links, setLinks] and the running handler
    theme,        \* ThemeProvider: isDark, localStorage, the system scheme
    sync,         \* notepad: LinkPage's noteContent, saves and events in flight
    dragItems     \* DraggableLinkItem: isDeleting and its timers, per link id

vars ==
    <<links, nextId, phase, last, prev, clean,
      pageLinks, searchQuery, pageOwner, pageError,
      done, clickers, clicked, notepad, pad, padLast, profiles, profCalls,
      sessions, dash, theme, sync, dragItems>>

svcVars == <<links, nextId, phase, last, prev, clean>>
pageVars == <<pageLinks, searchQuery, pageOwner, pageError>>
clickVars == <<clickers, clicked>>
padVars == <<notepad, pad, padLast>>
profileVars == <<profiles, profCalls>>
uiVars == <<sessions, dash, theme, sync, dragItems>>
otherVars == <<done, clickVars, padVars, profileVars, uiVars>>

----------------------------------------------------------------------------
(* Bounds *)

\* ids the table ever hands out
MaxLinks == 2

\* recordLinkClick calls per link
MaxClicks == 2

\* handlers called in one Dashboard session
MaxCalls == 4

\* changes of the system colour scheme
MaxChanges == 8

\* length of the longest text typed into the notepad
MaxTyped == 3

Users == {"u1", "u2"}

----------------------------------------------------------------------------
(* Strings.  A string value is a TLA+ string; Chars gives its characters,  *)
(* on which trim() and the regular expression work.                        *)

Chars(s) ==
    CASE s = ""            -> <<>>
      [] s = " "           -> <<" ">>
      [] s = "Git"         -> <<"G", "i", "t">>
      [] s = "Hub"         -> <<"H", "u", "b">>
      [] s = "git"         -> <<"g", "i", "t">>
      [] s = "x"           -> <<"x">>
      [] s = " git"        -> <<" ", "g", "i", "t">>
      [] s = "ub"          -> <<"u", "b">>
      [] s = "abc"         -> <<"a", "b", "c">>
      [] s = "xyz"         -> <<"x", "y", "z">>
      [] s = "ab"          -> <<"a", "b">>
      [] s = "Abc"         -> <<"A", "b", "c">>
      [] s = "https://a.b" -> <<"h", "t", "t", "p", "s", ":", "/", "/", "a", ".", "b">>
      [] s = "http://a.b"  -> <<"h", "t", "t", "p", ":", "/", "/", "a", ".", "b">>
      [] s = " http://a.b" -> <<" ", "h", "t", "t", "p", ":", "/", "/", "a", ".", "b">>
      [] s = "http://a. "  -> <<"h", "t", "t", "p", ":", "/", "/", "a", ".", " ">>
      [] s = "ftp://a.b"   -> <<"f", "t", "p", ":", "/", "/", "a", ".", "b">>
      [] s = "http://ab"   -> <<"h", "t", "t", "p", ":", "/", "/", "a", "b">>
      [] s = "http://a\n.b" -> <<"h", "t", "t", "p", ":", "/", "/", "a", "\n", ".", "b">>

\* String.prototype.trim: white space and line terminators
IsWhiteSpace(c) == c \in {" ", "\t", "\n", "\r"}

\* the regular expression's `.`: any character but a line terminator
IsLineTerminator(c) == c \in {"\n", "\r"}

RECURSIVE TrimStart(_)
TrimStart(cs) ==
    IF cs # <<>> /\ IsWhiteSpace(Head(cs)) THEN TrimStart(Tail(cs)) ELSE cs

RECURSIVE TrimEnd(_)
TrimEnd(cs) ==
    IF cs # <<>> /\ IsWhiteSpace(cs[Len(cs)])
    THEN TrimEnd(SubSeq(cs, 1, Len(cs) - 1))
    ELSE cs

Trim(cs) == TrimEnd(TrimStart(cs))

StartsWith(cs, p) == Len(cs) >= Len(p) /\ SubSeq(cs, 1, Len(p)) = p

\* .+\..+  matched at the start of cs (the pattern is not anchored at its end)
HostWithDot(cs) ==
    \E i \in 2..(Len(cs) - 1) :
        /\ cs[i] = "."
        /\ \A j \in 1..(i - 1) : ~IsLineTerminator(cs[j])
        /\ ~IsLineTerminator(cs[i + 1])

\* URL_PATTERN = /^https?:\/\/.+\..+/ ; URL_PATTERN.test(cs)
URL_PATTERN(cs) ==
    \/ /\ StartsWith(cs, <<"h", "t", "t", "p", ":", "/", "/">>)
       /\ HostWithDot(SubSeq(cs, 8, Len(cs)))
    \/ /\ StartsWith(cs, <<"h", "t", "t", "p", "s", ":", "/", "/">>)
       /\ HostWithDot(SubSeq(cs, 9, Len(cs)))

validateUrlNoTrim(url) == url # "" /\ URL_PATTERN(Chars(url))

validateUrlNonEmpty(url) == url # ""

validateUrl(url) == url # "" /\ URL_PATTERN(Trim(Chars(url)))

----------------------------------------------------------------------------
(* The table and its queries *)

NoCall == [op |-> "none"]

EmptyTable == [id \in {} |-> 0]

RowsOf(table, userId) == {id \in DOMAIN table : table[id].user_id = userId}

Injective(s) == \A i, j \in DOMAIN s : s[i] = s[j] => i = j

Perms(S) == {s \in [1..Cardinality(S) -> S] : Injective(s)}

\* .order('display_order', { ascending }): every arrangement of the ids S
\* the sort admits (the order of rows with equal keys is not determined)
OrderedAsc(table, S) ==
    {s \in Perms(S) :
        \A i, j \in DOMAIN s :
            i < j => table[s[i]].display_order <= table[s[j]].display_order}

mapDbLinkToLinkItem(id, row) ==
    [id |-> id, userId |-> row.user_id, title |-> row.title, url |-> row.url,
     iconType |-> row.icon_type, iconValue |-> row.icon_value,
     displayOrder |-> row.display_order, isEnabled |-> row.is_enabled,
     clickCount |-> row.click_count]

ItemsOf(table, s) == [i \in DOMAIN s |-> mapDbLinkToLinkItem(s[i], table[s[i]])]

\* the results getLinks(userId) can return on `table`
getLinks(table, userId) ==
    {ItemsOf(table, s) : s \in OrderedAsc(table, RowsOf(table, userId))}

getEnabledLinksAll(table, userId) ==
    {ItemsOf(table, s) : s \in OrderedAsc(table, RowsOf(table, userId))}

\* the results getEnabledLinks(userId) can return on `table`
getEnabledLinks(table, userId) ==
    {ItemsOf(table, s) :
        s \in OrderedAsc(table,
                {id \in RowsOf(table, userId) : table[id].is_enabled})}

Max(S) == CHOOSE x \in S : \A y \in S : y <= x
Min(S) == CHOOSE x \in S : \A y \in S : x <= y

Ids(items) == [i \in DOMAIN items |-> items[i].id]

----------------------------------------------------------------------------
(* The record a service call leaves behind *)

NoItem == [id |-> 0]

Call(op, userId, linkId, input, linkIds, fail, result, requests, item) ==
    [op |-> op, userId |-> userId, linkId |-> linkId, input |-> input,
     linkIds |-> linkIds, fail |-> fail, result |-> result,
     requests |-> requests, item |-> item]

Has(input, f) == f \in DOMAIN input

----------------------------------------------------------------------------
(* linkService.ts *)

\* select display_order ... order desc limit 1, then + 1 (0 when the read
\* returned nothing: no row, or an error, whose `error` is not looked at)
NextOrderNoIncrement(table, userId, readFailed) ==
    LET existingLinks ==
            IF readFailed THEN {}
            ELSE {table[id].display_order : id \in RowsOf(table, userId)}
    IN  IF existingLinks # {} THEN Max(existingLinks) ELSE 0

NextOrder(table, userId, readFailed) ==
    LET existingLinks ==
            IF readFailed THEN {}
            ELSE {table[id].display_order : id \in RowsOf(table, userId)}
    IN  IF existingLinks # {} THEN Max(existingLinks) + 1 ELSE 0

\* the inserted row; is_enabled and click_count take the column defaults
NewRow(input, order) ==
    [user_id |-> input.userId, title |-> input.title, url |-> input.url,
     icon_type |-> input.iconType, icon_value |-> input.iconValue,
     display_order |-> order, is_enabled |-> TRUE, click_count |-> 0]

\* fail: the requests among "select", "insert" that report an error
createLink(input, fail) ==
    /\ phase = "idle"
    /\ phase' = "returned"
    /\ prev' = links
    /\ UNCHANGED <<pageVars, otherVars>>
    /\ IF ~validateUrl(input.url)
       THEN /\ fail = {}
            /\ last' = Call("createLink", input.userId, 0, input, <<>>, {},
                            "InvalidUrl", <<>>, NoItem)
            /\ UNCHANGED <<links, nextId, clean>>
       ELSE LET row == NewRow(input, NextOrder(links, input.userId, "select" \in fail))
            IN  /\ clean' = (clean /\ fail = {})
                /\ IF "insert" \in fail
                   THEN /\ last' = Call("createLink", input.userId, 0, input, <<>>, fail,
                                        "Failed", <<"select", "insert">>, NoItem)
                        /\ UNCHANGED <<links, nextId>>
                   ELSE /\ links' = [id \in DOMAIN links \cup {nextId} |->
                                        IF id = nextId THEN row ELSE links[id]]
                        /\ nextId' = nextId + 1
                        /\ last' = Call("createLink", input.userId, nextId, input, <<>>, fail,
                                        "ok", <<"select", "insert">>,
                                        mapDbLinkToLinkItem(nextId, row))

UpdatedRowEnableResetsIcon(row, input) ==
    LET enabling == Has(input, "isEnabled") /\ input.isEnabled
    IN  [row EXCEPT
            !.title = IF Has(input, "title") THEN input.title ELSE @,
            !.url = IF Has(input, "url") THEN input.url ELSE @,
            !.icon_type = IF Has(input, "iconType") THEN input.iconType
                          ELSE IF enabling THEN "predefined" ELSE @,
            !.icon_value = IF Has(input, "iconValue") THEN input.iconValue
                           ELSE IF enabling THEN "link" ELSE @,
            !.is_enabled = IF Has(input, "isEnabled") THEN input.isEnabled ELSE @]

UpdatedRowAll(row, input) ==
    [row EXCEPT
        !.title = IF Has(input, "title") THEN input.title ELSE @,
        !.url = IF Has(input, "url") THEN input.url ELSE @,
        !.icon_type = IF Has(input, "iconType") THEN input.iconType ELSE "predefined",
        !.icon_value = IF Has(input, "iconValue") THEN input.iconValue ELSE "link",
        !.is_enabled = IF Has(input, "isEnabled") THEN input.isEnabled ELSE TRUE]

\* updateData: the columns of the fields the input carries
UpdatedRow(row, input) ==
    [row EXCEPT
        !.title = IF Has(input, "title") THEN input.title ELSE @,
        !.url = IF Has(input, "url") THEN input.url ELSE @,
        !.icon_type = IF Has(input, "iconType") THEN input.iconType ELSE @,
        !.icon_value = IF Has(input, "iconValue") THEN input.iconValue ELSE @,
        !.is_enabled = IF Has(input, "isEnabled") THEN input.isEnabled ELSE @]

\* fail: the update request reports an error.  .single() reports an error
\* too when no row has the id
updateLink(linkId, input, fail) ==
    /\ phase = "idle"
    /\ phase' = "returned"
    /\ prev' = links
    /\ UNCHANGED <<nextId, pageVars, otherVars>>
    /\ IF Has(input, "url") /\ ~validateUrl(input.url)
       THEN /\ ~fail
            /\ last' = Call("updateLink", "", linkId, input, <<>>, {},
                            "InvalidUrl", <<>>, NoItem)
            /\ UNCHANGED <<links, clean>>
       ELSE /\ clean' = (clean /\ ~fail)
            /\ IF fail \/ linkId \notin DOMAIN links
               THEN /\ last' = Call("updateLink", "", linkId, input, <<>>,
                                    IF fail THEN {"update"} ELSE {},
                                    "Failed", <<"update">>, NoItem)
                    /\ UNCHANGED links
               ELSE /\ links' = [links EXCEPT ![linkId] = UpdatedRow(@, input)]
                    /\ last' = Call("updateLink", "", linkId, input, <<>>, {},
                                    "ok", <<"update">>,
                                    mapDbLinkToLinkItem(linkId, UpdatedRow(links[linkId], input)))

DeletedRenumbered(table, linkId) ==
    LET rest == DOMAIN table \ {linkId}
    IN  [id \in rest |->
            IF linkId \in DOMAIN table
               /\ table[id].user_id = table[linkId].user_id
               /\ table[id].display_order > table[linkId].display_order
            THEN [table[id] EXCEPT !.display_order = @ - 1]
            ELSE table[id]]

\* delete().eq('id', linkId): the rows left
Deleted(table, linkId) == [id \in DOMAIN table \ {linkId} |-> table[id]]

\* fail: the delete request reports an error
deleteLink(linkId, fail) ==
    /\ phase = "idle"
    /\ phase' = "returned"
    /\ prev' = links
    /\ clean' = (clean /\ ~fail)
    /\ UNCHANGED <<nextId, pageVars, otherVars>>
    /\ IF fail
       THEN /\ last' = Call("deleteLink", "", linkId, <<>>, <<>>, {"delete"},
                            "Failed", <<"delete">>, NoItem)
            /\ UNCHANGED links
       ELSE /\ links' = Deleted(links, linkId)
            /\ last' = Call("deleteLink", "", linkId, <<>>, <<>>, {},
                            "ok", <<"delete">>, NoItem)

ReorderedAllOrNothing(table, userId, linkIds, fail) ==
    [id \in DOMAIN table |->
        IF fail = {} /\ \E i \in DOMAIN linkIds :
              linkIds[i] = id /\ table[id].user_id = userId
        THEN [table[id] EXCEPT !.display_order =
                 (CHOOSE i \in DOMAIN linkIds : linkIds[i] = id) - 1]
        ELSE table[id]]

ReorderedAnyOwner(table, userId, linkIds, fail) ==
    [id \in DOMAIN table |->
        IF \E i \in DOMAIN linkIds : linkIds[i] = id /\ i \notin fail
        THEN [table[id] EXCEPT !.display_order =
                 (CHOOSE i \in DOMAIN linkIds : linkIds[i] = id) - 1]
        ELSE table[id]]

ReorderedOneBased(table, userId, linkIds, fail) ==
    [id \in DOMAIN table |->
        IF \E i \in DOMAIN linkIds :
              linkIds[i] = id /\ i \notin fail /\ table[id].user_id = userId
        THEN [table[id] EXCEPT !.display_order =
                 CHOOSE i \in DOMAIN linkIds : linkIds[i] = id]
        ELSE table[id]]

\* update({ display_order: index }).eq('id', linkId).eq('user_id', userId),
\* one request per id; the requests at the positions in `fail` report an error
Reordered(table, userId, linkIds, fail) ==
    [id \in DOMAIN table |->
        IF \E i \in DOMAIN linkIds :
              linkIds[i] = id /\ i \notin fail /\ table[id].user_id = userId
        THEN [table[id] EXCEPT !.display_order =
                 (CHOOSE i \in DOMAIN linkIds : linkIds[i] = id) - 1]
        ELSE table[id]]

\* linkIds holds no id twice
reorderLinks(userId, linkIds, fail) ==
    /\ phase = "idle"
    /\ phase' = "returned"
    /\ prev' = links
    /\ clean' = (clean /\ fail = {} /\ linkIds \in Perms(RowsOf(links, userId)))
    /\ UNCHANGED <<nextId, pageVars, otherVars>>
    /\ links' = Reordered(links, userId, linkIds, fail)
    /\ last' = Call("reorderLinks", userId, IF fail = {} THEN 0 ELSE Min(fail),
                    <<>>, linkIds, fail,
                    IF fail = {} THEN "ok" ELSE "Failed",
                    [i \in DOMAIN linkIds |-> "update"], NoItem)

\* the caller takes the result
Return ==
    /\ phase = "returned"
    /\ phase' = "idle"
    /\ last' = NoCall
    /\ prev' = EmptyTable
    /\ UNCHANGED <<links, nextId, clean, pageVars, otherVars>>

----------------------------------------------------------------------------
(* searchUtils.ts *)

ToLowerChar(c) ==
    CASE c = "G" -> "g"
      [] c = "H" -> "h"
      [] c = "I" -> "i"
      [] c = "T" -> "t"
      [] OTHER   -> c

ToLowerCase(cs) == [i \in DOMAIN cs |-> ToLowerChar(cs[i])]

\* String.prototype.includes
Includes(cs, needle) ==
    \E i \in 0..(Len(cs) - Len(needle)) : SubSeq(cs, i + 1, i + Len(needle)) = needle

filterLinksBySearchNoTrim(ls, query) ==
    IF query = ""
    THEN ls
    ELSE LET q == ToLowerCase(Chars(query))
             Matches(link) == Includes(ToLowerCase(Chars(link.title)), q)
         IN  SelectSeq(ls, Matches)

filterLinksBySearchCaseSensitive(ls, query) ==
    IF Trim(Chars(query)) = <<>>
    THEN ls
    ELSE LET q == Trim(ToLowerCase(Chars(query)))
             Matches(link) == Includes(Chars(link.title), q)
         IN  SelectSeq(ls, Matches)

filterLinksBySearch(ls, query) ==
    IF Trim(Chars(query)) = <<>>
    THEN ls
    ELSE LET q == Trim(ToLowerCase(Chars(query)))
             Matches(link) == Includes(ToLowerCase(Chars(link.title)), q)
         IN  SelectSeq(ls, Matches)

----------------------------------------------------------------------------
(* pages/LinkPage.tsx.  The page is another client of the table: its steps *)
(* fall between the service calls of the owner.                            *)

\* fetchData for the profile userId; ok: the fetch of the links succeeds
fetchData(userId, ok) ==
    /\ phase = "idle"
    /\ pageOwner' = userId
    /\ IF ok
       THEN /\ pageLinks' \in getEnabledLinks(links, userId)
            /\ pageError' = FALSE
       ELSE /\ pageError' = TRUE
            /\ UNCHANGED pageLinks
    /\ UNCHANGED <<searchQuery, svcVars, otherVars>>

\* the page renders its list: not the error view, and a profile is loaded
RendersList == pageOwner # "" /\ ~pageError

\* const showSearchBar = links.length > 0
showSearchBar == Len(pageLinks) > 0

\* SearchBar onChange
setSearchQuery(query) ==
    /\ phase = "idle"
    /\ RendersList
    /\ showSearchBar
    /\ searchQuery' = query
    /\ UNCHANGED <<pageLinks, pageOwner, pageError, svcVars, otherVars>>

filteredLinks == filterLinksBySearch(pageLinks, searchQuery)

----------------------------------------------------------------------------
(* Inputs *)

ValidInput(u) ==
    [userId |-> u, title |-> "Git", url |-> "https://a.b",
     iconType |-> "predefined", iconValue |-> "link"]

CreateInputs ==
    {ValidInput(u) : u \in Users}
        \cup {[ValidInput(u) EXCEPT !.url = "ftp://a.b"] : u \in Users}

ToggleInputs == {[isEnabled |-> TRUE], [isEnabled |-> FALSE]}

LinkIds == 1..MaxLinks

\* sequences of ids of the table, no id twice
IdSeqs(S) == UNION {Perms(T) : T \in SUBSET S}

----------------------------------------------------------------------------
(* The other clients of the store, before any of them has acted *)

NoDone == [call |-> NoCall]

\* visitors of the public page whose clicks can overlap
Clickers == {"c1", "c2"}

IdleClicker == [pc |-> "idle"]

\* no save is scheduled (saveTimeoutRef holds no running timer)
NoTimer == -1

\* no edit since the last save or clear
NoEdit == [len |-> -1]

InitPad == [content |-> 0, error |-> FALSE, timer |-> NoTimer, edit |-> NoEdit]

InitSlug(u) == IF u = "u1" THEN "abc" ELSE "xyz"

InitProfiles == [u \in Users |-> [slug |-> InitSlug(u), display_name |-> "Git"]]

IdleUpdate == [pc |-> "idle"]

\* browser sessions of one owner whose service calls can overlap
Sessions == {"s1", "s2"}

IdleSession == [pc |-> "idle"]

\* the Dashboard before its data is loaded
InitDash == [links |-> <<>>, pc |-> "unloaded", calls |-> 0]

\* before ThemeProvider is rendered, in a browser that has no stored value
InitTheme == [pc |-> "unmounted", isDark |-> FALSE, docDark |-> FALSE,
              stored |-> "null", system |-> FALSE, chosen |-> FALSE, changes |-> 0]

InitSync == [noteContent |-> 0, inflight |-> {}, channel |-> <<>>, failed |-> FALSE]

InitItem == [mounted |-> TRUE, isDeleting |-> FALSE, timers |-> {},
             clicks |-> 0, armedFor |-> -1, called |-> "no", leftAfter |-> -1]

Init ==
    /\ links = EmptyTable
    /\ nextId = 1
    /\ phase = "idle"
    /\ last = NoCall
    /\ prev = EmptyTable
    /\ clean = TRUE
    /\ pageLinks = <<>>
    /\ searchQuery = ""
    /\ pageOwner = ""
    /\ pageError = FALSE
    /\ done = NoDone
    /\ clickers = [c \in Clickers |-> IdleClicker]
    /\ clicked = [id \in LinkIds |-> 0]
    /\ notepad = 0
    /\ pad = InitPad
    /\ padLast = NoCall
    /\ profiles = InitProfiles
    /\ profCalls = [u \in Users |-> IdleUpdate]
    /\ sessions = [s \in Sessions |-> IdleSession]
    /\ dash = InitDash
    /\ theme = InitTheme
    /\ sync = InitSync
    /\ dragItems = [id \in LinkIds |-> InitItem]

Next ==
    \/ nextId <= MaxLinks /\ \E input \in CreateInputs, fail \in SUBSET {"select", "insert"} :
          createLink(input, fail)
    \/ \E linkId \in LinkIds, input \in ToggleInputs, fail \in BOOLEAN :
          updateLink(linkId, input, fail)
    \/ \E linkId \in LinkIds, fail \in BOOLEAN : deleteLink(linkId, fail)
    \/ \E userId \in Users, linkIds \in IdSeqs(DOMAIN links) :
          \E fail \in SUBSET DOMAIN linkIds : reorderLinks(userId, linkIds, fail)
    \/ Return

Spec == Init /\ [][Next]_vars

----------------------------------------------------------------------------
(* Claims about the ordering of an owner's links *)

Returned(op) == phase = "returned" /\ last.op = op

Orders(table, userId) == {table[id].display_order : id \in RowsOf(table, userId)}

DistinctOrders(table, userId) ==
    \A a, b \in RowsOf(table, userId) :
        table[a].display_order = table[b].display_order => a = b

Contiguous(table, userId) ==
    /\ DistinctOrders(table, userId)
    /\ Orders(table, userId) = 0..(Cardinality(RowsOf(table, userId)) - 1)

C2_NoDuplicateOrder == \A u \in Users : DistinctOrders(links, u)

\* C3: a successful createLink adds exactly one link to getLinks(owner), and
\* its display_order is the owner's previous maximum + 1, or 0 with no link
C3_CreateAppends ==
    Returned("createLink") /\ last.result = "ok" =>
        LET u == last.userId
        IN  /\ \A before \in getLinks(prev, u), after \in getLinks(links, u) :
                  Len(after) = Len(before) + 1
            /\ last.item.displayOrder =
                  IF RowsOf(prev, u) = {} THEN 0 ELSE Max(Orders(prev, u)) + 1

DeleteRemovesOnlyThat ==
    Returned("deleteLink") /\ last.result = "ok" /\ last.linkId \in DOMAIN prev =>
        LET u == prev[last.linkId].user_id
        IN  /\ DOMAIN links = DOMAIN prev \ {last.linkId}
            /\ \A id \in DOMAIN links : links[id] = prev[id]
            /\ \A before \in getLinks(prev, u), after \in getLinks(links, u) :
                  /\ Len(after) = Len(before) - 1
                  /\ \A i \in DOMAIN after : after[i].id # last.linkId

\* an id that has been handed out and is no longer in the table never returns
NoRevive ==
    \A id \in 1..(nextId - 1) : id \notin DOMAIN links => id \notin DOMAIN links'

\* C4: a successful deleteLink of an existing id removes that row alone:
\* getLinks(owner) has one element fewer, every other row keeps all its
\* fields (display_order too), and the id is in no later getLinks result
C4_DeleteRemovesOne ==
    /\ [](DeleteRemovesOnlyThat /\ \A id \in DOMAIN links : id < nextId)
    /\ [][NoRevive]_vars

\* the first of an owner's two links is deleted, the second keeps its order
C4_Witness ==
    /\ Returned("deleteLink") /\ last.result = "ok"
    /\ last.linkId \in DOMAIN prev
    /\ \E id \in DOMAIN links :
          /\ links[id].user_id = prev[last.linkId].user_id
          /\ links[id].display_order > prev[last.linkId].display_order

----------------------------------------------------------------------------
(* The public page *)

PageCreateInputs == {ValidInput(u) : u \in Users}

Queries == {"", "git", "x"}

NextPage ==
    \/ nextId <= MaxLinks /\ \E input \in PageCreateInputs : createLink(input, {})
    \/ \E linkId \in DOMAIN links, input \in ToggleInputs : updateLink(linkId, input, FALSE)
    \/ \E userId \in Users :
          \E linkIds \in Perms(RowsOf(links, userId)) :
              reorderLinks(userId, linkIds, {})
    \/ Return
    \/ \E userId \in Users, ok \in BOOLEAN : fetchData(userId, ok)
    \/ \E query \in Queries : setSearchQuery(query)

SpecPage == Init /\ [][NextPage]_vars

IsEnabledItem(item) == item.isEnabled

\* C6: getEnabledLinks(owner) returns exactly the owner's links with
\* isEnabled = true, in the relative order of getLinks(owner), and every link
\* in the list the public page renders, under any search query, is one the
\* page fetched as enabled for its profile
C6_EnabledOnly ==
    /\ \A u \in Users :
          /\ getEnabledLinks(links, u) =
                {SelectSeq(g, IsEnabledItem) : g \in getLinks(links, u)}
          /\ \A e \in getEnabledLinks(links, u) :
                /\ {e[i].id : i \in DOMAIN e} =
                      {id \in DOMAIN links : links[id].user_id = u /\ links[id].is_enabled}
                /\ Len(e) = Cardinality({e[i].id : i \in DOMAIN e})
    /\ RendersList =>
          \A i \in DOMAIN filteredLinks :
              /\ filteredLinks[i].isEnabled
              /\ filteredLinks[i].userId = pageOwner

\* the owner has an enabled and a disabled link; the page, loaded after the
\* link was disabled, renders the enabled one under a query that matches it
C6_Witness ==
    /\ RendersList
    /\ searchQuery = "git"
    /\ Len(filteredLinks) = 1
    /\ \E id \in RowsOf(links, pageOwner) :
          /\ ~links[id].is_enabled
          /\ \A i \in DOMAIN pageLinks : pageLinks[i].id # id
    /\ \E id \in RowsOf(links, pageOwner) :
          links[id].is_enabled /\ filteredLinks[1].id = id

----------------------------------------------------------------------------
(* The fields of a link: validation, creation and update by one owner *)

Urls ==
    {"https://a.b", " http://a.b", "http://a. ", "ftp://a.b", "", "http://ab",
     "http://a\n.b"}

FieldCreateInputs ==
    {[ValidInput("u1") EXCEPT !.url = url] : url \in Urls}
        \cup {[ValidInput("u1") EXCEPT !.title = " "]}

FieldUpdateInputs ==
    {[url |-> url] : url \in Urls}
        \cup {[title |-> "Git"],
              [iconType |-> "predefined"],
              [iconValue |-> "x"],
              [iconType |-> "custom", iconValue |-> "x"],
              [isEnabled |-> FALSE],
              [isEnabled |-> TRUE],
              [title |-> "Git", url |-> "https://a.b",
               iconType |-> "custom", iconValue |-> "x"],
              [title |-> "Git", url |-> "ftp://a.b",
               iconType |-> "custom", iconValue |-> "x", isEnabled |-> FALSE]}

NextFields ==
    \/ nextId <= MaxLinks /\ \E input \in FieldCreateInputs, fail \in SUBSET {"insert"} :
          createLink(input, fail)
    \/ \E linkId \in DOMAIN links, input \in FieldUpdateInputs :
          updateLink(linkId, input, FALSE)
    \/ \E linkId \in DOMAIN links : deleteLink(linkId, FALSE)
    \/ Return

SpecFields == Init /\ [][NextFields]_vars

CalledWithUrl ==
    \/ Returned("createLink")
    \/ Returned("updateLink") /\ Has(last.input, "url")

CalledWithInvalidUrl ==
    CalledWithUrl /\ ~URL_PATTERN(Trim(Chars(last.input.url)))

\* C8: createLink or updateLink with an invalid url fails before any request
\* is sent to the store, and leaves the table as it was: an updateLink that
\* also carries a title, an icon or isEnabled applies none of them
C8_InvalidUrlNoRequest ==
    CalledWithInvalidUrl =>
        /\ last.result = "InvalidUrl"
        /\ last.requests = <<>>
        /\ last.item = NoItem
        /\ links = prev

\* an update of an enabled link with a bad url and isEnabled = false
C8_Witness ==
    /\ Returned("updateLink")
    /\ CalledWithInvalidUrl
    /\ Has(last.input, "title") /\ Has(last.input, "isEnabled")
    /\ last.linkId \in DOMAIN links
    /\ links[last.linkId].is_enabled /\ ~last.input.isEnabled
    /\ links[last.linkId].icon_value # last.input.iconValue

IsBlank(s) == Trim(Chars(s)) = <<>>

\* C9: createLink with an empty or white-space title fails with an
\* invalid-input error and stores no link
C9_BlankTitleRejected ==
    Returned("createLink") /\ IsBlank(last.input.title) =>
        /\ last.result \notin {"ok", "Failed"}
        /\ links = prev

----------------------------------------------------------------------------
(* The Dashboard's toggle (part_003, handleToggleLink) *)

DashCreateInputs ==
    {ValidInput("u1"),
     [ValidInput("u1") EXCEPT !.title = "Hub", !.iconType = "custom", !.iconValue = "x"]}

\* const updated = await updateLink(linkId, { isEnabled: enabled })
handleToggleLink(linkId, enabled, fail) ==
    updateLink(linkId, [isEnabled |-> enabled], fail)

\* the handler goes on after its await: setLinks / toast, or the catch
handlerDone ==
    /\ phase = "returned"
    /\ phase' = "idle"
    /\ done' = [call |-> last, before |-> prev, after |-> links]
    /\ last' = NoCall
    /\ prev' = EmptyTable
    /\ UNCHANGED <<links, nextId, clean, pageVars, clickVars, padVars, profileVars, uiVars>>

NextDashboard ==
    \/ nextId <= MaxLinks /\ \E input \in DashCreateInputs : createLink(input, {})
    \/ \E linkId \in DOMAIN links, enabled \in BOOLEAN, fail \in BOOLEAN :
          handleToggleLink(linkId, enabled, fail)
    \/ \E linkIds \in Perms(RowsOf(links, "u1")) : reorderLinks("u1", linkIds, {})
    \/ handlerDone

SpecDashboard == Init /\ [][NextDashboard]_vars

ToggledOnThenOff ==
    /\ Returned("updateLink") /\ last.result = "ok"
    /\ last.input = [isEnabled |-> FALSE]
    /\ done.call.op = "updateLink" /\ done.call.result = "ok"
    /\ done.call.linkId = last.linkId
    /\ done.call.input = [isEnabled |-> TRUE]
    /\ ~done.before[last.linkId].is_enabled

----------------------------------------------------------------------------
(* Claims about failing and foreign requests (specification Spec) *)

\* C12: reorderLinks sends one update per id; with no failing update the
\* call succeeds; with a failing one it fails with the error of the first
\* failing update of the batch, and every update that succeeded stays
\* applied while the rows of the failed ones keep their display_order
C12_ReorderPartial ==
    Returned("reorderLinks") =>
        /\ last.requests = [i \in DOMAIN last.linkIds |-> "update"]
        /\ last.result = IF last.fail = {} THEN "ok" ELSE "Failed"
        /\ last.fail # {} => last.linkId = Min(last.fail)
        /\ \A i \in DOMAIN last.linkIds :
              LET id == last.linkIds[i]
              IN  prev[id].user_id = last.userId =>
                     links[id].display_order =
                        IF i \in last.fail THEN prev[id].display_order ELSE i - 1

\* of two updates the second failed and the first has moved its link
C12_Witness ==
    /\ Returned("reorderLinks")
    /\ last.result = "Failed"
    /\ last.fail = {2}
    /\ Len(last.linkIds) = 2
    /\ prev[last.linkIds[1]].user_id = last.userId
    /\ prev[last.linkIds[2]].user_id = last.userId
    /\ links[last.linkIds[1]].display_order # prev[last.linkIds[1]].display_order
    /\ links[last.linkIds[2]] = prev[last.linkIds[2]]

\* C13: reorderLinks(owner, ids) leaves every link of another owner as it
\* was, also one whose id is in ids, and reports no error for it; createLink
\* for an owner leaves the links of the other owners as they were
C13_OtherOwnersUntouched ==
    /\ Returned("reorderLinks") =>
          /\ DOMAIN links = DOMAIN prev
          /\ \A id \in DOMAIN prev :
                prev[id].user_id # last.userId => links[id] = prev[id]
          /\ last.fail = {} => last.result = "ok"
    /\ Returned("createLink") =>
          \A id \in DOMAIN prev :
              prev[id].user_id # last.userId =>
                  id \in DOMAIN links /\ links[id] = prev[id]

\* a successful reorder for one owner named a link of the other owner at a
\* position that is not that link's display_order
C13_Witness ==
    /\ Returned("reorderLinks")
    /\ last.result = "ok"
    /\ \E i \in DOMAIN last.linkIds :
          /\ prev[last.linkIds[i]].user_id # last.userId
          /\ prev[last.linkIds[i]].display_order # i - 1
          /\ links[last.linkIds[i]] = prev[last.linkIds[i]]
    /\ \E i \in DOMAIN last.linkIds :
          /\ prev[last.linkIds[i]].user_id = last.userId
          /\ links[last.linkIds[i]] # prev[last.linkIds[i]]

\* C17: deleteLink or updateLink of an id that is not in the store fails
\* with an error and leaves the store unchanged
C17_MissingIdFails ==
    (Returned("deleteLink") \/ Returned("updateLink"))
        /\ last.linkId \notin DOMAIN prev =>
        /\ last.result = "Failed"
        /\ links = prev

\* C20: a createLink one of whose storage requests failed fails, and
\* inserts no link
C20_CreateFailureReported ==
    Returned("createLink") /\ last.fail # {} =>
        /\ last.result = "Failed"
        /\ links = prev

----------------------------------------------------------------------------
(* The search of the public page *)

SearchCreateInputs ==
    {ValidInput("u1"), [ValidInput("u1") EXCEPT !.title = "Hub"]}

SearchQueries == {"", " ", "git", "Git", " git", "ub", "x"}

NextSearch ==
    \/ nextId <= MaxLinks /\ \E input \in SearchCreateInputs : createLink(input, {})
    \/ \E linkIds \in Perms(RowsOf(links, "u1")) : reorderLinks("u1", linkIds, {})
    \/ Return
    \/ \E ok \in BOOLEAN : fetchData("u1", ok)
    \/ \E query \in SearchQueries : setSearchQuery(query)

SpecSearch == Init /\ [][NextSearch]_vars

\* C14: with an empty or white-space query the page's filtered list is the
\* list it holds: the same links in the same order
C14_BlankQueryIdentity ==
    searchQuery \in {"", " "} => filteredLinks = pageLinks

\* the query is one blank, the list has two links with different titles
C14_Witness ==
    /\ RendersList
    /\ searchQuery = " "
    /\ Len(pageLinks) = 2
    /\ pageLinks[1].title # pageLinks[2].title
    /\ filteredLinks = pageLinks

TitleHas(link, query) ==
    Includes(ToLowerCase(Chars(link.title)), ToLowerCase(Chars(query)))

TitleHasQuery(link) == TitleHas(link, searchQuery)

IsGit(link) == link.title = "Git"

IsHub(link) == link.title = "Hub"

----------------------------------------------------------------------------
(* analyticsService.ts: recordLinkClick.  Each await is a step, so the     *)
(* calls of different visitors interleave.  The requests succeed here; the *)
(* analytics_events row the call inserts first is not kept.                *)

ClicksOn(linkId) ==
    clicked[linkId]
        + Cardinality({c \in Clickers :
              clickers[c].pc # "idle" /\ clickers[c].linkId = linkId})

clickFrame ==
    UNCHANGED <<nextId, phase, last, prev, clean, pageVars, done, padVars, profileVars, uiVars>>

\* insert into analytics_events
recordLinkClick(c, linkId) ==
    /\ phase = "idle"
    /\ clickers[c].pc = "idle"
    /\ ClicksOn(linkId) < MaxClicks
    /\ clickers' = [clickers EXCEPT ![c] = [pc |-> "select", linkId |-> linkId]]
    /\ UNCHANGED <<links, clicked>>
    /\ clickFrame

\* const { data: linkData } = select('click_count').eq('id', linkId).single()
selectClickCount(c) ==
    /\ phase = "idle"
    /\ clickers[c].pc = "select"
    /\ LET linkId == clickers[c].linkId
       IN  IF linkId \in DOMAIN links
           THEN /\ clickers' = [clickers EXCEPT ![c] =
                       [pc |-> "update", linkId |-> linkId,
                        linkData |-> links[linkId].click_count]]
                /\ UNCHANGED clicked
           ELSE /\ clickers' = [clickers EXCEPT ![c] = IdleClicker]
                /\ clicked' = [clicked EXCEPT ![linkId] = @ + 1]
    /\ UNCHANGED links
    /\ clickFrame

\* update({ click_count: linkData.click_count + 1 }).eq('id', linkId)
updateClickCount(c) ==
    /\ phase = "idle"
    /\ clickers[c].pc = "update"
    /\ LET linkId == clickers[c].linkId
       IN  /\ links' = IF linkId \in DOMAIN links
                       THEN [links EXCEPT ![linkId].click_count = clickers[c].linkData + 1]
                       ELSE links
           /\ clicked' = [clicked EXCEPT ![linkId] = @ + 1]
    /\ clickers' = [clickers EXCEPT ![c] = IdleClicker]
    /\ clickFrame

NextClicks ==
    \/ nextId <= MaxLinks /\ createLink(ValidInput("u1"), {})
    \/ Return
    \/ \E c \in Clickers, linkId \in DOMAIN links : recordLinkClick(c, linkId)
    \/ \E c \in Clickers : selectClickCount(c)
    \/ \E c \in Clickers : updateClickCount(c)

SpecClicks == Init /\ [][NextClicks]_vars

\* C16: when no recordLinkClick call is running, the click_count of every
\* link is the number of recordLinkClick calls completed for it
C16_ClicksCounted ==
    (\A c \in Clickers : clickers[c].pc = "idle") =>
        \A id \in DOMAIN links : links[id].click_count = clicked[id]

----------------------------------------------------------------------------
(* The shared notepad: utils validateNotepadContent, notepadService.ts and *)
(* components/SharedNotepad.tsx as LinkPage mounts it.  A content is       *)
(* modelled by its length, the one thing the limit looks at.               *)

MAX_NOTEPAD_LENGTH == 5000

NoteLengths == {0, 1, MAX_NOTEPAD_LENGTH, MAX_NOTEPAD_LENGTH + 1}

validateNotepadContentOffByOne(content) == content <= MAX_NOTEPAD_LENGTH + 1

\* validateNotepadContent(content).valid
validateNotepadContent(content) == ~(content > MAX_NOTEPAD_LENGTH)

\* maxLength = MAX_NOTEPAD_LENGTH (LinkPage passes no maxLength)
maxLength == MAX_NOTEPAD_LENGTH

NoteCall(op, content, fail, result, requests, before) ==
    [op |-> op, content |-> content, fail |-> fail, result |-> result,
     requests |-> requests, before |-> before]

\* the outcome of saveNoteContent(slug, content); fail: the upsert reports an error
SaveResult(content, fail) ==
    IF ~validateNotepadContent(content) THEN "TooLong"
    ELSE IF fail THEN "Failed"
    ELSE "ok"

\* saveNoteContent(slug, content): what it does to the store
saveNoteContent(content, fail) ==
    /\ padLast' = NoteCall("saveNoteContent", content, fail, SaveResult(content, fail),
                           IF validateNotepadContent(content) THEN <<"upsert">> ELSE <<>>,
                           notepad)
    /\ notepad' = IF SaveResult(content, fail) = "ok" THEN content ELSE notepad
    /\ UNCHANGED <<svcVars, pageVars, done, clickVars, profileVars, uiVars>>

\* LinkPage.handleNoteSave, called with any content
handleNoteSave(content, fail) ==
    /\ saveNoteContent(content, fail)
    /\ UNCHANGED pad

\* SharedNotepad.handleChange; pad.edit remembers the edit and what it found
handleChange(newContent) ==
    /\ pad' = IF newContent > maxLength
              THEN [pad EXCEPT !.error = TRUE,
                               !.edit = [len |-> newContent, content |-> pad.content,
                                         timer |-> pad.timer]]
              ELSE [pad EXCEPT !.error = FALSE,
                               !.content = newContent,
                               !.timer = newContent,
                               !.edit = [len |-> newContent, content |-> pad.content,
                                         timer |-> pad.timer]]
    /\ UNCHANGED <<notepad, padLast, svcVars, pageVars, done, clickVars, profileVars, uiVars>>

\* the timer of debouncedSave fires: await onSave(newContent)
debouncedSave(fail) ==
    /\ pad.timer # NoTimer
    /\ saveNoteContent(pad.timer, fail)
    /\ pad' = [pad EXCEPT !.timer = NoTimer,
                          !.error = SaveResult(pad.timer, fail) # "ok",
                          !.edit = NoEdit]

\* SharedNotepad.handleClear -> clearNote(slug); the button is disabled
\* while the content is empty
handleClear(fail) ==
    /\ pad.content # 0
    /\ padLast' = NoteCall("clearNote", 0, fail, IF fail THEN "Failed" ELSE "ok",
                           <<"update">>, notepad)
    /\ notepad' = IF fail THEN notepad ELSE 0
    /\ pad' = [pad EXCEPT !.content = IF fail THEN @ ELSE 0,
                          !.error = fail,
                          !.edit = NoEdit]
    /\ UNCHANGED <<svcVars, pageVars, done, clickVars, profileVars, uiVars>>

NextNotepad ==
    \/ \E content \in NoteLengths, fail \in BOOLEAN : handleNoteSave(content, fail)
    \/ \E newContent \in NoteLengths : handleChange(newContent)
    \/ \E fail \in BOOLEAN : debouncedSave(fail)
    \/ \E fail \in BOOLEAN : handleClear(fail)

SpecNotepad == Init /\ [][NextNotepad]_vars

\* C18: the stored content never has more than 5000 characters;
\* saveNoteContent with a longer content fails and sends no request, with at
\* most 5000 it is accepted; an edit of the SharedNotepad to more than
\* maxLength leaves its content and its scheduled save as they were, and a
\* shorter edit is taken
C18_NotepadLimit ==
    /\ notepad <= 5000
    /\ pad.content <= 5000
    /\ pad.timer <= 5000
    /\ padLast.op = "saveNoteContent" =>
          IF padLast.content > 5000
          THEN /\ padLast.result = "TooLong"
               /\ padLast.requests = <<>>
               /\ notepad = padLast.before
          ELSE /\ padLast.result # "TooLong"
               /\ padLast.requests = <<"upsert">>
               /\ ~padLast.fail => padLast.result = "ok" /\ notepad = padLast.content
    /\ pad.edit # NoEdit =>
          IF pad.edit.len > 5000
          THEN /\ pad.content = pad.edit.content
               /\ pad.timer = pad.edit.timer
               /\ pad.error
          ELSE /\ pad.content = pad.edit.len
               /\ pad.timer = pad.edit.len

\* an edit to 5001 characters was refused while a save of 5000 characters
\* was scheduled, and a save of 5001 characters was refused by the service
C18_Witness ==
    /\ pad.edit # NoEdit
    /\ pad.edit.len = 5001
    /\ pad.content = 5000
    /\ pad.timer = 5000
    /\ padLast.op = "saveNoteContent"
    /\ padLast.content = 5001
    /\ notepad = 1

----------------------------------------------------------------------------
(* The profile service: updateProfile and checkSlugAvailability over the   *)
(* `profiles` table, whose slug column is UNIQUE.  Each await is a step.   *)

MIN_SLUG_LENGTH == 3
MAX_SLUG_LENGTH == 50

\* SLUG_PATTERN = /^[a-z0-9-]+$/
IsSlugChar(c) ==
    c \in {"a", "b", "c", "d", "e", "f", "g", "h", "i", "j", "k", "l", "m",
           "n", "o", "p", "q", "r", "s", "t", "u", "v", "w", "x", "y", "z",
           "0", "1", "2", "3", "4", "5", "6", "7", "8", "9", "-"}

SLUG_PATTERN(cs) == cs # <<>> /\ \A i \in DOMAIN cs : IsSlugChar(cs[i])

\* validateSlug(slug).valid
validateSlug(slug) ==
    /\ slug # ""
    /\ LET trimmedSlug == Trim(Chars(slug))
       IN  /\ ~(Len(trimmedSlug) < MIN_SLUG_LENGTH \/ Len(trimmedSlug) > MAX_SLUG_LENGTH)
           /\ SLUG_PATTERN(trimmedSlug)

\* select('id').eq('slug', slug).neq('id', excludeUserId): no row comes back
checkSlugAvailability(table, slug, excludeUserId) ==
    {id \in DOMAIN table : table[id].slug = slug /\ id # excludeUserId} = {}

SlugUniqueNotEnforced(table, userId, row) == FALSE

\* slug VARCHAR(50) UNIQUE: the update of userId's row to `row` is refused
SlugUniqueViolated(table, userId, row) ==
    \E id \in DOMAIN table : id # userId /\ table[id].slug = row.slug

\* updateData applied to the row
UpdatedProfile(row, input) ==
    [row EXCEPT
        !.display_name = IF Has(input, "displayName") THEN input.displayName ELSE @,
        !.slug = IF Has(input, "slug") THEN input.slug ELSE @]

profileFrame == UNCHANGED <<svcVars, pageVars, done, clickVars, padVars, uiVars>>

Finished(input, before, result) ==
    [pc |-> "done", input |-> input, before |-> before, result |-> result]

\* updateProfile(userId, input) up to its first await
updateProfile(userId, input) ==
    /\ profCalls[userId].pc = "idle"
    /\ profCalls' = [profCalls EXCEPT ![userId] =
          IF Has(input, "slug") /\ ~validateSlug(input.slug)
          THEN Finished(input, profiles[userId], "InvalidSlug")
          ELSE [pc |-> IF Has(input, "slug") THEN "check" ELSE "update",
                input |-> input, before |-> profiles[userId]]]
    /\ UNCHANGED profiles
    /\ profileFrame

\* await checkSlugAvailability(input.slug, userId); ok: the query succeeds
slugChecked(userId, ok) ==
    /\ profCalls[userId].pc = "check"
    /\ LET call == profCalls[userId]
       IN  profCalls' = [profCalls EXCEPT ![userId] =
              IF ~ok THEN Finished(call.input, call.before, "CheckFailed")
              ELSE IF ~checkSlugAvailability(profiles, call.input.slug, userId)
              THEN Finished(call.input, call.before, "Taken")
              ELSE [call EXCEPT !.pc = "update"]]
    /\ UNCHANGED profiles
    /\ profileFrame

\* await update(updateData).eq('id', userId).select().single(); ok: the
\* request reaches the table
profileUpdated(userId, ok) ==
    /\ profCalls[userId].pc = "update"
    /\ LET call == profCalls[userId]
           row == UpdatedProfile(profiles[userId], call.input)
       IN  IF ~ok
           THEN /\ profCalls' = [profCalls EXCEPT ![userId] =
                       Finished(call.input, call.before, "UpdateFailed")]
                /\ UNCHANGED profiles
           ELSE IF SlugUniqueViolated(profiles, userId, row)
           THEN /\ profCalls' = [profCalls EXCEPT ![userId] =
                       Finished(call.input, call.before, "Duplicate")]
                /\ UNCHANGED profiles
           ELSE /\ profCalls' = [profCalls EXCEPT ![userId] =
                       Finished(call.input, call.before, "ok")]
                /\ profiles' = [profiles EXCEPT ![userId] = row]
    /\ profileFrame

\* the caller takes the result
profileReturn(userId) ==
    /\ profCalls[userId].pc = "done"
    /\ profCalls' = [profCalls EXCEPT ![userId] = IdleUpdate]
    /\ UNCHANGED profiles
    /\ profileFrame

ProfileInputs ==
    {[slug |-> slug] : slug \in {"git", "abc", "ab", "Abc"}}
        \cup {[displayName |-> "Hub"], [displayName |-> "Hub", slug |-> "git"]}

NextProfiles ==
    \/ \E userId \in Users, input \in ProfileInputs : updateProfile(userId, input)
    \/ \E userId \in Users, ok \in BOOLEAN : slugChecked(userId, ok)
    \/ \E userId \in Users, ok \in BOOLEAN : profileUpdated(userId, ok)
    \/ \E userId \in Users : profileReturn(userId)

SpecProfiles == Init /\ [][NextProfiles]_vars

DoneWith(userId, result) ==
    profCalls[userId].pc = "done" /\ profCalls[userId].result = result

\* C19: no two profiles have the same slug; of two updateProfile calls that
\* ask for one slug, however their steps interleave, at most one succeeds;
\* a call that is rejected or fails leaves its profile as it was; and a call
\* that submits the user's own slug is not rejected
C19_SlugUnique ==
    /\ \A u, v \in Users : profiles[u].slug = profiles[v].slug => u = v
    /\ \A u, v \in Users :
          /\ u # v
          /\ DoneWith(u, "ok") /\ DoneWith(v, "ok")
          /\ Has(profCalls[u].input, "slug") /\ Has(profCalls[v].input, "slug")
          => profCalls[u].input.slug # profCalls[v].input.slug
    /\ \A u \in Users :
          profCalls[u].pc = "done" =>
              IF profCalls[u].result = "ok"
              THEN Has(profCalls[u].input, "slug") =>
                      profiles[u].slug = profCalls[u].input.slug
              ELSE profiles[u] = profCalls[u].before
    /\ \A u \in Users :
          /\ profCalls[u].pc = "done"
          /\ Has(profCalls[u].input, "slug")
          /\ profCalls[u].input.slug = profCalls[u].before.slug
          => profCalls[u].result \notin {"Taken", "Duplicate", "InvalidSlug"}

\* both users found the slug free; the one whose update came second was
\* refused by the table, and its display name was not changed either
C19_Witness ==
    \E u, v \in Users :
        /\ DoneWith(u, "Duplicate")
        /\ Has(profCalls[u].input, "displayName")
        /\ profiles[u].display_name # profCalls[u].input.displayName
        /\ profiles[v].slug = profCalls[u].input.slug
        /\ profiles[u].slug = InitSlug(u)

----------------------------------------------------------------------------
(* linkService.ts request by request: every await of createLink and every *)
(* update of reorderLinks is a step, so the calls of two sessions of one   *)
(* owner overlap.  The requests succeed here.                              *)

raceFrame ==
    UNCHANGED <<phase, last, prev, clean, pageVars, done, clickVars, padVars,
                profileVars, dash, theme, sync, dragItems>>

Inserting == {s \in Sessions : sessions[s].pc = "insert"}

InsertOrderAtInsert(table, userId, nextOrder) == NextOrder(table, userId, FALSE)

\* insert({ ..., display_order: nextOrder }): the value computed from the read
InsertOrder(table, userId, nextOrder) == nextOrder

\* createLink up to the answer of its select of the maximum display_order
createLinkSelect(s, input) ==
    /\ sessions[s].pc = "idle"
    /\ validateUrl(input.url)
    /\ sessions' = [sessions EXCEPT ![s] =
          [pc |-> "insert", op |-> "createLink", input |-> input,
           nextOrder |-> NextOrder(links, input.userId, FALSE)]]
    /\ UNCHANGED <<links, nextId>>
    /\ raceFrame

\* the insert, and the return of the new link
createLinkInsert(s) ==
    /\ sessions[s].pc = "insert"
    /\ LET call == sessions[s]
           row == NewRow(call.input,
                         InsertOrder(links, call.input.userId, call.nextOrder))
       IN  /\ links' = [id \in DOMAIN links \cup {nextId} |->
                           IF id = nextId THEN row ELSE links[id]]
           /\ sessions' = [sessions EXCEPT ![s] =
                 [pc |-> "done", op |-> "createLink", input |-> call.input,
                  nextOrder |-> call.nextOrder, result |-> "ok",
                  item |-> mapDbLinkToLinkItem(nextId, row)]]
    /\ nextId' = nextId + 1
    /\ raceFrame

ReorderWriteIfLater(table, userId, linkId, index) ==
    IF linkId \in DOMAIN table /\ table[linkId].user_id = userId
       /\ table[linkId].display_order <= index
    THEN [table EXCEPT ![linkId].display_order = index]
    ELSE table

\* update({ display_order: index }).eq('id', linkId).eq('user_id', userId)
ReorderWrite(table, userId, linkId, index) ==
    IF linkId \in DOMAIN table /\ table[linkId].user_id = userId
    THEN [table EXCEPT ![linkId].display_order = index]
    ELSE table

\* reorderLinks(userId, linkIds): its updates are built and sent
reorderLinksStart(s, userId, linkIds) ==
    /\ sessions[s].pc = "idle"
    /\ sessions' = [sessions EXCEPT ![s] =
          [pc |-> IF linkIds = <<>> THEN "done" ELSE "writing",
           op |-> "reorderLinks", userId |-> userId, linkIds |-> linkIds,
           pending |-> DOMAIN linkIds,
           result |-> "ok"]]
    /\ UNCHANGED <<links, nextId>>
    /\ raceFrame

\* one of the updates reaches the table; Promise.all resolves after the last
reorderLinksWrite(s, i) ==
    /\ sessions[s].pc = "writing"
    /\ i \in sessions[s].pending
    /\ LET call == sessions[s]
       IN  /\ links' = ReorderWrite(links, call.userId, call.linkIds[i], i - 1)
           /\ sessions' = [sessions EXCEPT ![s] =
                 [call EXCEPT !.pending = @ \ {i},
                              !.pc = IF call.pending = {i} THEN "done" ELSE "writing"]]
    /\ UNCHANGED nextId
    /\ raceFrame

\* the caller takes the result
sessionReturn(s) ==
    /\ sessions[s].pc = "done"
    /\ sessions' = [sessions EXCEPT ![s] = IdleSession]
    /\ UNCHANGED <<links, nextId>>
    /\ raceFrame

NextRace ==
    \/ \E s \in Sessions :
          /\ nextId + Cardinality(Inserting) <= MaxLinks
          /\ createLinkSelect(s, ValidInput("u1"))
    \/ \E s \in Sessions : createLinkInsert(s)
    \/ \E s \in Sessions :
          \E linkIds \in Perms(RowsOf(links, "u1")) : reorderLinksStart(s, "u1", linkIds)
    \/ \E s \in Sessions, i \in 1..(MaxLinks + 1) : reorderLinksWrite(s, i)
    \/ \E s \in Sessions : sessionReturn(s)

SpecRace == Init /\ [][NextRace]_vars

Created(s) == sessions[s].pc = "done" /\ sessions[s].op = "createLink"

\* C21: a createLink inserts the display_order it computed from its own
\* read, whatever was inserted between the read and the insert, and reports
\* no error: two calls that read the same maximum both succeed with the
\* same display_order
C21_CreateReadThenWrite ==
    /\ \A s \in Sessions :
          Created(s) =>
              /\ sessions[s].result = "ok"
              /\ sessions[s].item.displayOrder = sessions[s].nextOrder
    /\ \A s, t \in Sessions :
          Created(s) /\ Created(t) /\ sessions[s].nextOrder = sessions[t].nextOrder =>
              sessions[s].item.displayOrder = sessions[t].item.displayOrder

\* two overlapping calls of one owner have both returned a link with
\* display_order 0
C21_Witness ==
    /\ Created("s1") /\ Created("s2")
    /\ sessions["s1"].item.id # sessions["s2"].item.id
    /\ sessions["s1"].input.userId = sessions["s2"].input.userId
    /\ sessions["s1"].item.displayOrder = 0
    /\ sessions["s2"].item.displayOrder = 0

\* the step is the update at position i of the reorderLinks call of s
IsReorderWrite(s, i) ==
    /\ sessions[s].pc = "writing"
    /\ i \in sessions[s].pending
    /\ sessions'[s].pc \in {"writing", "done"}
    /\ sessions'[s].op = "reorderLinks"
    /\ sessions'[s].pending = sessions[s].pending \ {i}

EveryWriteApplies ==
    \A s \in Sessions : \A i \in 1..(MaxLinks + 1) :
        IsReorderWrite(s, i) =>
            LET id == sessions[s].linkIds[i]
            IN  /\ links'[id].display_order = i - 1
                /\ \A other \in DOMAIN links \ {id} : links'[other] = links[other]

\* C22: each update of an overlapping reorderLinks call is applied when it
\* arrives, whatever the other call has written (no lock, no version), so a
\* link's display_order is the one of the update applied to it last
C22_LastWriteWins == [][EveryWriteApplies]_vars

\* s1 put link 1 first and s2 put link 2 first: both calls are done and
\* both links have display_order 0, each from the update applied last
C22_Witness ==
    /\ sessions["s1"].pc = "done" /\ sessions["s1"].op = "reorderLinks"
    /\ sessions["s2"].pc = "done" /\ sessions["s2"].op = "reorderLinks"
    /\ sessions["s1"].linkIds = <<1, 2>>
    /\ sessions["s2"].linkIds = <<2, 1>>
    /\ links[1].display_order = 0
    /\ links[2].display_order = 0

----------------------------------------------------------------------------
(* The Dashboard (part_003): its local list `links` and its handlers.  A   *)
(* handler runs up to its await, the service call is made, and the handler *)
(* goes on with the result.                                                *)

dashFrame == UNCHANGED <<done, clickVars, padVars, profileVars, sessions, theme, sync, dragItems>>

Handler(op, linkId, input, reorderedLinks) ==
    [links |-> dash.links, pc |-> "awaiting", calls |-> dash.calls + 1, op |-> op, linkId |-> linkId, input |-> input,
     reorderedLinks |-> reorderedLinks, before |-> dash.links, result |-> "",
     refetched |-> FALSE]

\* fetchData: setLinks(linksData) with the list getLinks returned
dashFetchData ==
    /\ dash.pc = "unloaded"
    /\ phase = "idle"
    /\ \E linksData \in getLinks(links, "u1") :
          dash' = [links |-> linksData, pc |-> "idle", calls |-> 0]
    /\ UNCHANGED <<svcVars, pageVars>>
    /\ dashFrame

AtAwaitKept(op, local, reorderedLinks) == local

\* the list on display while the handler awaits: only handleReorderLinks
\* calls setLinks before its await
AtAwait(op, local, reorderedLinks) ==
    IF op = "reorder" THEN reorderedLinks ELSE local

\* a handler is called and runs up to its await
handlerCalled(op, linkId, input, reorderedLinks) ==
    /\ dash.pc = "idle"
    /\ dash.calls < MaxCalls
    /\ phase = "idle"
    /\ dash' = [Handler(op, linkId, input, reorderedLinks) EXCEPT
                   !.links = AtAwait(op, dash.links, reorderedLinks)]
    /\ UNCHANGED <<svcVars, pageVars>>
    /\ dashFrame

\* handleLinkFormSubmit with editingLink = null
handleCreate(data) == handlerCalled("create", 0, data, <<>>)

\* handleLinkFormSubmit with editingLink set to a link of the list
handleEdit(editingLink, data) == handlerCalled("edit", editingLink.id, data, <<>>)

handleDeleteLink(linkId) == handlerCalled("delete", linkId, <<>>, <<>>)

handleToggle(linkId, enabled) ==
    handlerCalled("toggle", linkId, [isEnabled |-> enabled], <<>>)

handleReorderLinks(reorderedLinks) == handlerCalled("reorder", 0, <<>>, reorderedLinks)

\* the call of linkService the handler awaits; fail: the requests that
\* report an error
serviceCalled ==
    /\ dash.pc = "awaiting"
    /\ CASE dash.op = "create" ->
              \E fail \in SUBSET {"select", "insert"} :
                  createLink([userId |-> "u1", title |-> dash.input.title,
                              url |-> dash.input.url, iconType |-> dash.input.iconType,
                              iconValue |-> dash.input.iconValue], fail)
         [] dash.op \in {"edit", "toggle"} ->
              \E fail \in BOOLEAN : updateLink(dash.linkId, dash.input, fail)
         [] dash.op = "delete" ->
              \E fail \in BOOLEAN : deleteLink(dash.linkId, fail)
         [] dash.op = "reorder" ->
              \E fail \in {{}, {1}, DOMAIN dash.reorderedLinks} :
                  reorderLinks("u1", Ids(dash.reorderedLinks), fail)

ReplaceItem(ls, item) == [i \in DOMAIN ls |-> IF ls[i].id = item.id THEN item ELSE ls[i]]

WithoutItem(ls, linkId) == SelectSeq(ls, LAMBDA l : l.id # linkId)

AfterAwaitDeleteAlways(local, op, call) ==
    IF op = "delete" THEN WithoutItem(local, call.linkId)
    ELSE IF call.result # "ok" THEN local
    ELSE IF op = "create" THEN Append(local, call.item)
    ELSE IF op \in {"edit", "toggle"} THEN ReplaceItem(local, call.item)
    ELSE local

\* the setLinks after the await; a call that threw skips it
AfterAwait(local, op, call) ==
    IF call.result # "ok" THEN local
    ELSE IF op = "create" THEN Append(local, call.item)
    ELSE IF op \in {"edit", "toggle"} THEN ReplaceItem(local, call.item)
    ELSE IF op = "delete" THEN WithoutItem(local, call.linkId)
    ELSE local

\* the handler goes on after its await: setLinks and toast.success, or the
\* catch; the catch of handleReorderLinks awaits getLinks
handlerResumed ==
    /\ dash.pc = "awaiting"
    /\ phase = "returned"
    /\ phase' = "idle"
    /\ last' = NoCall
    /\ prev' = EmptyTable
    /\ dash' = [dash EXCEPT
          !.links = AfterAwait(dash.links, dash.op, last),
          !.result = last.result,
          !.pc = IF dash.op = "reorder" /\ last.result # "ok" THEN "refetch" ELSE "over"]
    /\ UNCHANGED <<links, nextId, clean, pageVars>>
    /\ dashFrame

RefetchedKept(local, linksData) == local

\* setLinks(linksData)
Refetched(local, linksData) == linksData

\* the getLinks in the catch of handleReorderLinks answers (ok), or throws
\* out of the handler
refetchDone(ok) ==
    /\ dash.pc = "refetch"
    /\ \E linksData \in getLinks(links, "u1") :
          dash' = [dash EXCEPT
              !.links = IF ok THEN Refetched(dash.links, linksData) ELSE @,
              !.refetched = ok,
              !.pc = "over"]
    /\ UNCHANGED <<svcVars, pageVars>>
    /\ dashFrame

\* the handler's promise settles; the list stays
handlerSettled ==
    /\ dash.pc = "over"
    /\ dash' = [links |-> dash.links, pc |-> "idle", calls |-> dash.calls]
    /\ UNCHANGED <<svcVars, pageVars>>
    /\ dashFrame

FormData ==
    {[title |-> "Git", url |-> "https://a.b", iconType |-> "predefined", iconValue |-> "link"],
     [title |-> "Hub", url |-> "ftp://a.b", iconType |-> "predefined", iconValue |-> "link"]}

Local == {dash.links[i] : i \in DOMAIN dash.links}

NextDash ==
    \/ dashFetchData
    \/ nextId <= MaxLinks /\ \E data \in FormData : handleCreate(data)
    \/ \E editingLink \in Local, data \in FormData :
          handleEdit(editingLink, [data EXCEPT !.title = "Hub"])
    \/ \E l \in Local : handleDeleteLink(l.id)
    \/ \E l \in Local : handleToggle(l.id, ~l.isEnabled)
    \/ \E ids \in Perms({l.id : l \in Local}) :
          handleReorderLinks([i \in DOMAIN ids |->
              CHOOSE l \in Local : l.id = ids[i]])
    \/ serviceCalled
    \/ handlerResumed
    \/ \E ok \in BOOLEAN : refetchDone(ok)
    \/ handlerSettled

SpecDash == Init /\ [][NextDash]_vars

HandlerOver(op) == dash.pc = "over" /\ dash.op = op

\* C23: after a failed reorder whose re-fetch succeeded, the handler is
\* over with the Dashboard's list being a list getLinks returns for the
\* owner
C23_FailedReorderRefetched ==
    HandlerOver("reorder") /\ dash.result # "ok" /\ dash.refetched =>
        dash.links \in getLinks(links, "u1")

\* the order put on display before the await has been replaced by the
\* stored one
C23_Witness ==
    /\ HandlerOver("reorder") /\ dash.result # "ok" /\ dash.refetched
    /\ Len(dash.links) = 2
    /\ dash.links # dash.reorderedLinks
    /\ Ids(dash.before) # Ids(dash.reorderedLinks)

Shown(linkId) == {l \in Local : l.id = linkId}

\* the list on display holds the state the handler was called to produce
ShowsNewState ==
    CASE dash.op = "reorder" -> dash.links = dash.reorderedLinks
      [] dash.op = "toggle" ->
            \A l \in Shown(dash.linkId) : l.isEnabled = dash.input.isEnabled
      [] dash.op = "edit" ->
            \A l \in Shown(dash.linkId) : l.title = dash.input.title
      [] dash.op = "delete" -> Shown(dash.linkId) = {}
      [] OTHER -> TRUE

C26_FailureKeepsList ==
    /\ dash.pc = "over" /\ dash.op \in {"create", "edit", "toggle", "delete"}
    /\ dash.result # "ok"
    => dash.links = dash.before

\* a delete was refused by the store; the link is still on display
C26_Witness ==
    /\ HandlerOver("delete") /\ dash.result = "Failed"
    /\ Shown(dash.linkId) # {}
    /\ dash.linkId \in DOMAIN links

\* C27: whenever no handler runs, the ids on display are, in order, the ids
\* of a list getLinks returns for the owner
C27_ListFollowsStore ==
    dash.pc \in {"idle", "over"} =>
        \E ls \in getLinks(links, "u1") :
            /\ Len(ls) = Len(dash.links)
            /\ \A i \in 1..Len(ls) : ls[i].id = dash.links[i].id

----------------------------------------------------------------------------
(* ThemeContext.tsx: ThemeProvider.  localStorage outlives the page; the   *)
(* system colour scheme is the browser's prefers-color-scheme.             *)

themeFrame ==
    UNCHANGED <<svcVars, pageVars, done, clickVars, padVars, profileVars,
                sessions, dash, sync, dragItems>>

String(b) == IF b THEN "true" ELSE "false"

\* useState(() => ...): the stored preference, else the system scheme
InitialIsDark(stored, matches) ==
    IF stored # "null" THEN stored = "true" ELSE matches

\* first render of ThemeProvider
themeRender ==
    /\ theme.pc = "unmounted"
    /\ theme' = [theme EXCEPT !.pc = "rendered",
                              !.isDark = InitialIsDark(theme.stored, theme.system)]
    /\ themeFrame

\* the effect on [isDark]: the class of the document and localStorage.setItem
Applied(t) == [t EXCEPT !.docDark = t.isDark, !.stored = String(t.isDark)]

\* the effects of the mount: apply and persist, register the listener
themeEffects ==
    /\ theme.pc = "rendered"
    /\ theme' = [Applied(theme) EXCEPT !.pc = "mounted"]
    /\ themeFrame

\* handleChange(e) of the media query listener, and the effect that follows
\* a changed isDark
handleSystemChange(t, matches) ==
    IF t.stored = "null" THEN Applied([t EXCEPT !.isDark = matches]) ELSE t

\* the system colour scheme changes; the listener runs once registered
systemChange ==
    /\ theme.changes < MaxChanges
    /\ LET t == [theme EXCEPT !.system = ~theme.system, !.changes = @ + 1]
       IN  theme' = IF theme.pc = "mounted" THEN handleSystemChange(t, t.system) ELSE t
    /\ themeFrame

toggleDarkMode ==
    /\ theme.pc = "mounted"
    /\ theme' = Applied([theme EXCEPT !.isDark = ~theme.isDark, !.chosen = TRUE])
    /\ themeFrame

setDarkMode(value) ==
    /\ theme.pc = "mounted"
    /\ theme' = Applied([theme EXCEPT !.isDark = value, !.chosen = TRUE])
    /\ themeFrame

\* the page is closed or reloaded; localStorage stays
themeUnmount ==
    /\ theme.pc = "mounted"
    /\ theme' = [theme EXCEPT !.pc = "unmounted"]
    /\ themeFrame

NextTheme ==
    \/ themeRender
    \/ themeEffects
    \/ systemChange
    \/ toggleDarkMode
    \/ \E value \in BOOLEAN : setDarkMode(value)
    \/ themeUnmount

SpecTheme == Init /\ [][NextTheme]_vars

\* C25: while the user has chosen no preference (no toggleDarkMode, no
\* setDarkMode so far), the mounted ThemeProvider's isDark is the system
\* colour scheme, at the start and after each change of it
C25_FollowsSystem ==
    theme.pc = "mounted" /\ ~theme.chosen => theme.isDark = theme.system

----------------------------------------------------------------------------
(* The notepad of one visitor, request by request: SharedNotepad's         *)
(* debounced save, the upsert on its way, and the realtime notification of *)
(* the change coming back to LinkPage.  A text is written as its length;   *)
(* typing appends a character.                                             *)

syncFrame == UNCHANGED <<svcVars, pageVars, done, clickVars, profileVars,
                         sessions, dash, theme, dragItems>>

\* the timer of debouncedSave fires: onSave(newContent) sends the upsert
saveTimerFired ==
    /\ pad.timer # NoTimer
    /\ validateNotepadContent(pad.timer)
    /\ sync' = [sync EXCEPT !.inflight = @ \cup {pad.timer}]
    /\ pad' = [pad EXCEPT !.timer = NoTimer]
    /\ UNCHANGED <<notepad, padLast>>
    /\ syncFrame

\* an upsert of saveNoteContent reaches the store and is answered; the
\* change is published on the channel.  fail: the store reports an error
upsertDone(content, fail) ==
    /\ content \in sync.inflight
    /\ notepad' = IF fail THEN notepad ELSE content
    /\ sync' = [sync EXCEPT
          !.inflight = @ \ {content},
          !.channel = IF fail THEN @ ELSE Append(@, content),
          !.failed = @ \/ fail]
    /\ pad' = [pad EXCEPT !.error = fail]
    /\ UNCHANGED padLast
    /\ syncFrame

\* useEffect(() => setContent(initialContent), [initialContent])
InitialContentChanged(shown, old, new) == IF new # old THEN new ELSE shown

\* the callback of subscribeToNotepad: setNoteContent(content), and the
\* render of SharedNotepad with the new initialContent
notepadChanged ==
    /\ sync.channel # <<>>
    /\ LET content == Head(sync.channel)
       IN  /\ sync' = [sync EXCEPT !.channel = Tail(@), !.noteContent = content]
           /\ pad' = [pad EXCEPT !.content =
                         InitialContentChanged(@, sync.noteContent, content)]
    /\ UNCHANGED <<notepad, padLast>>
    /\ syncFrame

NextSync ==
    \/ pad.content < MaxTyped /\ handleChange(pad.content + 1)
    \/ saveTimerFired
    \/ \E content \in sync.inflight, fail \in BOOLEAN : upsertDone(content, fail)
    \/ notepadChanged

SpecSync == Init /\ [][NextSync]_vars

\* the text typed last
Typed == pad.edit # NoEdit

\* C28: a notification of the visitor's own earlier save never replaces the
\* text typed since: the textarea holds the text typed last
C28_EchoKeepsTyped ==
    Typed => pad.content = pad.edit.len

\* C29: a pending save is the one of the text typed last, and with no save
\* pending or on its way and none failed, the stored content is the text
\* typed last
C29_LastTypedPersisted ==
    /\ Typed /\ pad.timer # NoTimer => pad.timer = pad.edit.len
    /\ Typed /\ pad.timer = NoTimer /\ sync.inflight = {} /\ ~sync.failed =>
          notepad = pad.edit.len

----------------------------------------------------------------------------
(* DraggableLinkList.tsx: the delete control of DraggableLinkItem, one item *)
(* per link id.  Time passes in seconds.  Of each item the model remembers  *)
(* its delete clicks (none, one, more), for how long it has been armed, in  *)
(* which state the click that called onDelete found it, and after how many  *)
(* seconds it was last disarmed.                                            *)

\* setTimeout(() => setIsDeleting(false), 3000)
DELETE_RESET_SECONDS == 3

dragFrame == UNCHANGED <<svcVars, pageVars, done, clickVars, padVars, profileVars,
                         sessions, dash, theme, sync>>

ClickDeletesAlways(item) == TRUE

\* if (isDeleting) onDelete(link.id)
ClickDeletes(item) == item.isDeleting

\* handleDelete: the click on the delete button (desktop) or on the delete
\* entry of the mobile menu.  ok: the delete onDelete starts removes the
\* link, and with it the item and its state, from the list
handleDelete(id, ok) ==
    /\ dragItems[id].mounted
    /\ LET item == [dragItems[id] EXCEPT !.clicks = IF @ < 2 THEN @ + 1 ELSE @]
       IN  dragItems' = [dragItems EXCEPT ![id] =
              IF ClickDeletes(item)
              THEN [item EXCEPT
                      !.called = IF item.isDeleting THEN "armed" ELSE "unarmed",
                      !.mounted = ~ok,
                      !.isDeleting = ~ok,
                      !.armedFor = IF ok THEN -1 ELSE @,
                      !.timers = IF ok THEN {} ELSE @]
              ELSE [item EXCEPT
                      !.isDeleting = TRUE,
                      !.armedFor = 0,
                      !.timers = @ \cup {DELETE_RESET_SECONDS}]]
    /\ dragFrame

\* the timer callback: setIsDeleting(false)
TimedOut(item) ==
    IF 1 \in item.timers
    THEN [item EXCEPT !.isDeleting = FALSE,
                      !.leftAfter = IF item.isDeleting THEN item.armedFor + 1 ELSE @,
                      !.armedFor = -1,
                      !.timers = {t - 1 : t \in item.timers \ {1}}]
    ELSE [item EXCEPT !.armedFor = IF item.isDeleting THEN @ + 1 ELSE @,
                      !.timers = {t - 1 : t \in @}]

\* a second passes; the timers that are due run
tick ==
    /\ \E id \in LinkIds : dragItems[id].timers # {}
    /\ dragItems' = [id \in LinkIds |-> TimedOut(dragItems[id])]
    /\ dragFrame

NextDrag ==
    \/ \E id \in LinkIds, ok \in BOOLEAN : handleDelete(id, ok)
    \/ tick

SpecDrag == Init /\ [][NextDrag]_vars

\* C30: onDelete is called only by a click that found the item armed, which
\* is never the first delete click on it; an armed item has been armed by a
\* delete click on it less than 3 seconds ago; and an item is disarmed 3
\* seconds after it was armed
C30_DeleteNeedsArmedClick ==
    \A id \in LinkIds :
        LET item == dragItems[id]
        IN  /\ item.called # "no" => item.called = "armed" /\ item.clicks >= 2
            /\ item.isDeleting =>
                  /\ item.clicks >= 1
                  /\ item.armedFor \in 0..(DELETE_RESET_SECONDS - 1)
                  /\ item.timers = {DELETE_RESET_SECONDS - item.armedFor}
            /\ item.leftAfter # -1 => item.leftAfter = DELETE_RESET_SECONDS

\* one link was deleted by the second click on its armed item; the other
\* item was armed by a click and has been disarmed by its timer
C30_Witness ==
    \E id, other \in LinkIds :
        /\ dragItems[id].called = "armed" /\ ~dragItems[id].mounted
        /\ dragItems[other].clicks = 1
        /\ ~dragItems[other].isDeleting
        /\ dragItems[other].leftAfter = DELETE_RESET_SECONDS
        /\ dragItems[other].called = "no"

====
